---- MODULE Spec2Model ----
(***************************************************************************)
(* CustomZipCreator (nishantaneupane/pdftoimage): a ZIP writer that stores *)
(* entries uncompressed.  Buffers are sequences of bytes 0..255, strings   *)
(* are sequences of UTF-16 code units, and a 32-bit word is the pair of    *)
(* its 16-bit halves [hi, lo] (TLC's integers end at 2^31 - 1).            *)
(***************************************************************************)
EXTENDS Integers, Sequences, FiniteSets, TLC

VARIABLES entries, blob, zipped, thrown, now, endCall, promise,
          requests, sweeps, temp, tempExists, uploads, download

(* the state of the builders and the state of the server *)
zipVars == <<entries, blob, zipped, thrown, endCall, promise>>
serverVars == <<requests, sweeps, temp, tempExists, uploads, download>>

vars == <<entries, blob, zipped, thrown, now, endCall, promise,
          requests, sweeps, temp, tempExists, uploads, download>>

(***************************************************************************)
(* Bounds of the model.                                                    *)
(***************************************************************************)
MaxEntries == 2
MaxPair == 2
MaxClock == 1
MaxLen == 3
MaxName == 3
MaxData == 3
MaxTicks == 1

(***************************************************************************)
(* Widths of the DataView fields.                                          *)
(***************************************************************************)
U8 == 256
U16 == 65536

(***************************************************************************)
(* Balanced concatenation of the sequences f[lo], ..., f[hi]: what a loop  *)
(* of appends builds, evaluated in logarithmic depth.                      *)
(***************************************************************************)
RECURSIVE Concat(_, _, _)
Concat(f, lo, hi) ==
  IF lo > hi THEN <<>>
  ELSE IF lo = hi THEN f[lo]
  ELSE LET mid == (lo + hi) \div 2
       IN  Concat(f, lo, mid) \o Concat(f, mid + 1, hi)

(* A function on 1..n as the sequence TLC indexes in constant time. *)
Tuple(f) == f \o <<>>

Flatten(f) == Concat(f, 1, Len(f))

(* Sum of the integers f[lo], ..., f[hi], in logarithmic depth. *)
RECURSIVE SumRange(_, _, _)
SumRange(f, lo, hi) ==
  IF lo > hi THEN 0
  ELSE IF lo = hi THEN f[lo]
  ELSE LET mid == (lo + hi) \div 2
       IN  SumRange(f, lo, mid) + SumRange(f, mid + 1, hi)

(* The running totals base, base + f[lo], ... before each of lo..hi. *)
RECURSIVE RunningFrom(_, _, _, _)
RunningFrom(f, lo, hi, base) ==
  IF lo > hi THEN <<>>
  ELSE IF lo = hi THEN <<base>>
  ELSE LET mid == (lo + hi) \div 2
       IN  RunningFrom(f, lo, mid, base)
             \o RunningFrom(f, mid + 1, hi, base + SumRange(f, lo, mid))

(***************************************************************************)
(* Bitwise operators of JavaScript on 16-bit halves and 32-bit words.      *)
(***************************************************************************)
RECURSIVE BitXor(_, _, _)
BitXor(a, b, n) ==
  IF n = 0 THEN 0
  ELSE (((a % 2) + (b % 2)) % 2) + 2 * BitXor(a \div 2, b \div 2, n - 1)

Word(h, l) == [hi |-> h, lo |-> l]

(* a ^ b *)
Xor32(a, b) == Word(BitXor(a.hi, b.hi, 16), BitXor(a.lo, b.lo, 16))

(* a >>> 1 *)
Ushr1(a) == Word(a.hi \div 2, (a.lo \div 2) + (a.hi % 2) * (U16 \div 2))

(* a >>> 8 *)
Ushr8(a) == Word(a.hi \div U8, (a.lo \div U8) + (a.hi % U8) * U8)

(* 0xedb88320 and 0xffffffff *)
Poly == Word(60856, 33568)
AllOnes == Word(U16 - 1, U16 - 1)

(***************************************************************************)
(* The CRC-32 lookup table: crcTable[i] for i in 0..255.                   *)
(***************************************************************************)
RECURSIVE crcTableStep(_, _)
crcTableStep(crc, j) ==
  IF j = 8 THEN crc
  ELSE crcTableStep(IF crc.lo % 2 = 1 THEN Xor32(Poly, Ushr1(crc)) ELSE Ushr1(crc),
                    j + 1)

crcTable == [i \in 0 .. 255 |-> crcTableStep(Word(0, i), 0)]

(* Mutant of crcUpdate: the register is not shifted. *)
crcUpdateNoShift(crc, byte) ==
  Xor32(crcTable[BitXor(crc.lo % U8, byte, 8)], crc)

(* One step of the loop of calculateCRC32. *)
crcUpdate(crc, byte) ==
  Xor32(crcTable[BitXor(crc.lo % U8, byte, 8)], Ushr8(crc))

RECURSIVE crcLoop(_, _, _)
crcLoop(data, i, crc) ==
  IF i > Len(data) THEN crc
  ELSE crcLoop(data, i + 1, crcUpdate(crc, data[i]))

(* Mutant of calculateCRC32: the final XOR is left out. *)
calculateCRC32NoFinalXor(data) == crcLoop(data, 1, AllOnes)

calculateCRC32(data) == Xor32(crcLoop(data, 1, AllOnes), AllOnes)

(***************************************************************************)
(* new TextEncoder().encode(s): UTF-8 of a string of UTF-16 code units; a  *)
(* surrogate pair is one code point, a lone surrogate becomes U+FFFD.      *)
(***************************************************************************)
IsHigh(u) == u >= 55296 /\ u <= 56319
IsLow(u) == u >= 56320 /\ u <= 57343

EncodeUnit(s, i) ==
  LET u == s[i] IN
  IF IsHigh(u) /\ i < Len(s) /\ IsLow(s[i + 1])
  THEN LET cp == 65536 + (u - 55296) * 1024 + (s[i + 1] - 56320)
       IN  << 240 + (cp \div 262144), 128 + ((cp \div 4096) % 64),
              128 + ((cp \div 64) % 64), 128 + (cp % 64) >>
  ELSE IF IsLow(u) /\ i > 1 /\ IsHigh(s[i - 1]) THEN <<>>
  ELSE IF IsHigh(u) \/ IsLow(u) THEN <<239, 191, 189>>
  ELSE IF u < 128 THEN <<u>>
  ELSE IF u < 2048 THEN << 192 + (u \div 64), 128 + (u % 64) >>
  ELSE << 224 + (u \div 4096), 128 + ((u \div 64) % 64), 128 + (u % 64) >>

TextEncode(s) == Flatten(Tuple([i \in 1 .. Len(s) |-> EncodeUnit(s, i)]))

(***************************************************************************)
(* DataView.setUint16 / setUint32 with littleEndian = true: the bytes      *)
(* written.  setUint16 keeps the value modulo 2^16.                        *)
(***************************************************************************)
setUint16(v) == << v % U8, (v \div U8) % U8 >>

setUint32(v) ==
  << v % U8, (v \div U8) % U8, (v \div U16) % U8, (v \div (U16 * U8)) % U8 >>

(* setUint32 of a checksum word *)
setUint32Word(w) == setUint16(w.lo) \o setUint16(w.hi)

(* Mutant of lastModFileTimeDate: the time field is taken from the clock. *)
lastModFromClock == setUint16(now) \o setUint16(0)

(* Last mod file time/date (dummy values) *)
lastModFileTimeDate == setUint16(0) \o setUint16(0)

createLocalFileHeader(filename, fileSize, crc32) ==
  LET filenameBytes == TextEncode(filename) IN
       setUint32(67324752)                    \* 0x04034b50
    \o setUint16(20)
    \o setUint16(0)
    \o setUint16(0)
    \o lastModFileTimeDate
    \o setUint32Word(crc32)
    \o setUint32(fileSize)
    \o setUint32(fileSize)
    \o setUint16(Len(filenameBytes))
    \o setUint16(0)
    \o filenameBytes

createCentralDirectoryEntry(filename, fileSize, crc32, offset) ==
  LET filenameBytes == TextEncode(filename) IN
       setUint32(33639248)                    \* 0x02014b50
    \o setUint16(20)
    \o setUint16(20)
    \o setUint16(0)
    \o setUint16(0)
    \o lastModFileTimeDate
    \o setUint32Word(crc32)
    \o setUint32(fileSize)
    \o setUint32(fileSize)
    \o setUint16(Len(filenameBytes))
    \o setUint16(0)
    \o setUint16(0)
    \o setUint16(0)
    \o setUint16(0)
    \o setUint32(0)
    \o setUint32(offset)
    \o filenameBytes

createEndOfCentralDirectory(totalEntries, centralDirectorySize, centralDirectoryOffset) ==
       setUint32(101010256)                   \* 0x06054b50
    \o setUint16(0)
    \o setUint16(0)
    \o setUint16(totalEntries)
    \o setUint16(totalEntries)
    \o setUint32(centralDirectorySize)
    \o setUint32(centralDirectoryOffset)
    \o setUint16(0)

(***************************************************************************)
(* createZip over the entry sequence es.  The first loop pushes, for each  *)
(* entry, its local header and its data onto zipParts and a central        *)
(* directory entry, holding the running offset as it stood before the      *)
(* entry, onto centralDirectory.  The loops are written in closed form:    *)
(* the sequences they build and the sums they accumulate.                  *)
(***************************************************************************)
localHeaders(es) ==
  Tuple([i \in 1 .. Len(es) |->
           createLocalFileHeader(es[i].filename, Len(es[i].data), es[i].crc32)])

(* offset += localHeader.length + fileData.length: the summands *)
advance(es, lh) ==
  Tuple([i \in 1 .. Len(es) |-> Len(lh[i]) + Len(es[i].data)])

(* Mutant of offsets: the offset is advanced before it is recorded. *)
offsetsAdvancedFirst(adv) == Tuple([i \in 1 .. Len(adv) |-> SumRange(adv, 1, i)])

(* offset, as iteration i hands it to createCentralDirectoryEntry *)
offsets(adv) == RunningFrom(adv, 1, Len(adv), 0)

(* Mutant of centralDirectory: the entries are unshifted, not pushed. *)
centralDirectoryReversed(es, off) ==
  Tuple([k \in 1 .. Len(es) |->
           LET i == Len(es) + 1 - k
           IN  createCentralDirectoryEntry(es[i].filename, Len(es[i].data),
                                           es[i].crc32, off[i])])

centralDirectory(es, off) ==
  Tuple([i \in 1 .. Len(es) |->
           createCentralDirectoryEntry(es[i].filename, Len(es[i].data),
                                       es[i].crc32, off[i])])

(* const centralDirectoryStart = offset, after the first loop *)
centralDirectoryStart(adv) == SumRange(adv, 1, Len(adv))

(* Mutant of centralDirectorySize: the fixed part of each record only. *)
centralDirectorySizeFixed(cd) == 46 * Len(cd)

(* centralDirectorySize += entry.length, over centralDirectory *)
centralDirectorySize(cd) ==
  SumRange(Tuple([i \in 1 .. Len(cd) |-> Len(cd[i])]), 1, Len(cd))

(* Mutant of zipParts: nothing is written for a builder without entries. *)
zipPartsNoneWhenEmpty(es, lh, cd, endRecord) ==
  IF Len(es) = 0 THEN <<>>
  ELSE Flatten(Tuple([i \in 1 .. Len(es) |-> <<lh[i], es[i].data>>])) \o cd \o <<endRecord>>

(* zipParts, in the order of the pushes *)
zipParts(es, lh, cd, endRecord) ==
  Flatten(Tuple([i \in 1 .. Len(es) |-> <<lh[i], es[i].data>>])) \o cd \o <<endRecord>>

(* zipParts as createZip has it when its loops are done *)
createZipParts(es) ==
  LET lh == localHeaders(es)
      adv == advance(es, lh)
      cd == centralDirectory(es, offsets(adv))
      endRecord == createEndOfCentralDirectory(Len(es), centralDirectorySize(cd),
                                               centralDirectoryStart(adv))
  IN  zipParts(es, lh, cd, endRecord)

(* zipArray: every part set at the position the parts before it end at *)
zipArray(parts) == Flatten(parts)

(***************************************************************************)
(* atob(s) of the browser (forgiving-base64 decode) and the loop of        *)
(* base64ToUint8Array over its result.                                     *)
(***************************************************************************)
IsAsciiWhitespace(c) == c \in {9, 10, 12, 13, 32}

IsBase64Char(c) ==
  \/ c >= 65 /\ c <= 90
  \/ c >= 97 /\ c <= 122
  \/ c >= 48 /\ c <= 57
  \/ c = 43
  \/ c = 47

Base64Value(c) ==
  IF c >= 65 /\ c <= 90 THEN c - 65
  ELSE IF c >= 97 /\ c <= 122 THEN c - 71
  ELSE IF c >= 48 /\ c <= 57 THEN c + 4
  ELSE IF c = 43 THEN 62
  ELSE 63

(* the input without whitespace and without its padding *)
atobStripped(s) ==
  LET t == SelectSeq(s, LAMBDA c : ~IsAsciiWhitespace(c))
      n == Len(t)
  IN  IF n > 0 /\ n % 4 = 0 /\ t[n] = 61
      THEN IF t[n - 1] = 61 THEN SubSeq(t, 1, n - 2) ELSE SubSeq(t, 1, n - 1)
      ELSE t

(* Mutant of atobThrows: only the length is looked at. *)
atobThrowsOnLengthOnly(s) == Len(atobStripped(s)) % 4 = 1

(* atob throws InvalidCharacterError *)
atobThrows(s) ==
  LET t == atobStripped(s)
  IN  \/ Len(t) % 4 = 1
      \/ \E i \in 1 .. Len(t) : ~IsBase64Char(t[i])

(* the binary string atob returns, as its char codes *)
atob(s) ==
  LET t == atobStripped(s)
      v == Tuple([i \in 1 .. Len(t) |-> Base64Value(t[i])])
      full == Len(t) \div 4
      rest == Len(t) % 4
      group(g) == LET k == 4 * g
                  IN  << v[k + 1] * 4 + (v[k + 2] \div 16),
                         (v[k + 2] % 16) * 16 + (v[k + 3] \div 4),
                         (v[k + 3] % 4) * 64 + v[k + 4] >>
      last == LET k == 4 * full
              IN  IF rest = 2 THEN << v[k + 1] * 4 + (v[k + 2] \div 16) >>
                  ELSE IF rest = 3
                  THEN << v[k + 1] * 4 + (v[k + 2] \div 16),
                          (v[k + 2] % 16) * 16 + (v[k + 3] \div 4) >>
                  ELSE <<>>
  IN  Flatten(Tuple([g \in 1 .. full |-> group(g - 1)])) \o last

base64ToUint8Array(base64) ==
  LET binaryString == atob(base64)
  IN  Tuple([i \in 1 .. Len(binaryString) |-> binaryString[i] % U8])

(***************************************************************************)
(* State.  entries[b] is this.entries of builder b; blob[b] the Blob its   *)
(* last createZip returned (NoBlob before the first call), kept as the     *)
(* parts that make up its zipArray, one after the other; zipped[b] the     *)
(* entry sequence that call read; thrown the error the last call raised    *)
(* ("none" when it returned); now the wall clock, which no method of the   *)
(* class reads; endCall the arguments and the result of the last call of   *)
(* createEndOfCentralDirectory on its own (SpecEnd); promise[b] the        *)
(* promise a call of createZip has returned and its caller has not yet     *)
(* awaited: the parts of its Blob and the entry sequence the call read     *)
(* (NoPromise when there is none).  The state of the server (requests,     *)
(* sweeps, temp, tempExists, uploads, download) is described with its      *)
(* routes below.                                                           *)
(***************************************************************************)
Builders == {1, 2}
Requests == {1, 2}
Sweeps == {1, 2}

idleRequest == [pc |-> "idle", file |-> "none", sessionId |-> <<>>, arrived |-> 0,
                status |-> 0]
idleSweep == [pc |-> "idle", now |-> 0, sessions |-> {}, session |-> <<>>,
              files |-> <<>>]
idleDownload == [pc |-> "idle", sessionId |-> <<>>, status |-> 0, body |-> <<>>]

NoBlob == << <<-1>> >>
NoPromise == [parts |-> NoBlob, read |-> <<>>]

Init ==
  /\ entries = [b \in Builders |-> <<>>]
  /\ blob = [b \in Builders |-> NoBlob]
  /\ zipped = [b \in Builders |-> <<>>]
  /\ thrown = "none"
  /\ now = 0
  /\ endCall = [totalEntries |-> 0, centralDirectorySize |-> 0,
                centralDirectoryOffset |-> 0, record |-> <<>>]
  /\ promise = [b \in Builders |-> NoPromise]
  /\ requests = [r \in Requests |-> idleRequest]
  /\ sweeps = [w \in Sweeps |-> idleSweep]
  /\ temp = {}
  /\ tempExists = FALSE
  /\ uploads = {}
  /\ download = idleDownload

(* Arguments: a Uint8Array, a string, or undefined. *)
Uint8Array(bytes) == [type |-> "Uint8Array", value |-> bytes]
String(units) == [type |-> "string", value |-> units]
Undefined == [type |-> "undefined", value |-> <<>>]

(* the ZipEntry addFile pushes *)
newEntry(filename, fileData) ==
  [filename |-> filename, data |-> fileData, crc32 |-> calculateCRC32(fileData)]

addFile(b, filename, data, isBase64) ==
  LET fileData ==
        IF data.type = "string"
        THEN IF isBase64 THEN base64ToUint8Array(data.value)
             ELSE TextEncode(data.value)
        ELSE data.value
  IN  IF data.type = "string" /\ isBase64 /\ atobThrows(data.value)
      THEN /\ thrown' = "InvalidCharacterError"
           /\ UNCHANGED <<entries, blob, zipped, now, endCall, promise, serverVars>>
      ELSE IF data.type = "undefined"
      THEN /\ thrown' = "TypeError"
           /\ UNCHANGED <<entries, blob, zipped, now, endCall, promise, serverVars>>
      ELSE /\ entries' = [entries EXCEPT ![b] = Append(@, newEntry(filename, fileData))]
           /\ thrown' = "none"
           /\ UNCHANGED <<blob, zipped, now, endCall, promise, serverVars>>

(* dataURL.split(",")[1] *)
splitComma1(dataURL) ==
  LET commas == {i \in 1 .. Len(dataURL) : dataURL[i] = 44}
      first == CHOOSE i \in commas : \A j \in commas : i <= j
      after == {i \in commas : i > first}
      second == IF after = {} THEN Len(dataURL) + 1
                ELSE CHOOSE i \in after : \A j \in after : i <= j
  IN  IF commas = {} THEN Undefined
      ELSE String(SubSeq(dataURL, first + 1, second - 1))

addImageFromDataURL(b, filename, dataURL) ==
  addFile(b, filename, splitComma1(dataURL), TRUE)

createZip(b) ==
  /\ blob' = [blob EXCEPT ![b] = createZipParts(entries[b])]
  /\ zipped' = [zipped EXCEPT ![b] = entries[b]]
  /\ thrown' = "none"
  /\ UNCHANGED <<entries, now, endCall, promise, serverVars>>

(***************************************************************************)
(* createZip is async and has no await: the call runs its body to the end  *)
(* and returns a promise that is already resolved (invoke); the caller's   *)
(* await takes the Blob in a later turn (settle).  createZip(b) above is   *)
(* the caller that awaits at once.                                         *)
(***************************************************************************)
(* Mutant of invoke: the call takes the entries out of the builder. *)
invokeDrains(b) ==
  /\ promise[b] = NoPromise
  /\ promise' = [promise EXCEPT ![b] = [parts |-> createZipParts(entries[b]),
                                        read |-> entries[b]]]
  /\ entries' = [entries EXCEPT ![b] = <<>>]
  /\ thrown' = "none"
  /\ UNCHANGED <<blob, zipped, now, endCall, serverVars>>

invoke(b) ==
  /\ promise[b] = NoPromise
  /\ promise' = [promise EXCEPT ![b] = [parts |-> createZipParts(entries[b]),
                                        read |-> entries[b]]]
  /\ thrown' = "none"
  /\ UNCHANGED <<entries, blob, zipped, now, endCall, serverVars>>

(* Mutant of settled: the entries are read when the promise is awaited. *)
settledLate(b) == createZipParts(entries[b])

(* the Blob the promise was resolved with *)
settled(b) == promise[b].parts

settle(b) ==
  /\ promise[b] # NoPromise
  /\ blob' = [blob EXCEPT ![b] = settled(b)]
  /\ zipped' = [zipped EXCEPT ![b] = promise[b].read]
  /\ promise' = [promise EXCEPT ![b] = NoPromise]
  /\ UNCHANGED <<entries, thrown, now, endCall, serverVars>>

(* The environment's clock advances. *)
Tick ==
  /\ now < MaxClock
  /\ now' = now + 1
  /\ UNCHANGED <<entries, blob, zipped, thrown, endCall, promise, serverVars>>

(***************************************************************************)
(* Inputs.                                                                 *)
(***************************************************************************)
Filenames == { <<112, 97, 103, 101, 95, 49, 46, 112, 110, 103>>,   \* "page_1.png"
               <<233>>,                                            \* U+00E9
               <<8364, 98>>,                                       \* U+20AC "b"
               <<55357, 56832>> }                                  \* U+1F600
Payloads == { <<>>,
              <<137, 80, 78, 71>>,
              <<49, 50, 51, 52, 53, 54, 55, 56, 57>> }             \* "123456789"

(***************************************************************************)
(* Spec: one builder, filled with byte payloads and finalized at will.     *)
(***************************************************************************)
AddFile ==
  \E filename \in Filenames, data \in Payloads :
    /\ Len(entries[1]) < MaxEntries
    /\ addFile(1, filename, Uint8Array(data), FALSE)

CreateZip == createZip(1)

Next == AddFile \/ CreateZip

Spec == Init /\ [][Next]_vars

(***************************************************************************)
(* SpecTwo: two builders filled and finalized independently while the      *)
(* clock advances.                                                         *)
(***************************************************************************)
PairInputs == { [filename |-> <<97>>, data |-> <<>>],
                [filename |-> <<233>>, data |-> <<137, 80>>] }

AddPairFile ==
  \E b \in Builders, in \in PairInputs :
    /\ Len(entries[b]) < MaxPair
    /\ addFile(b, in.filename, Uint8Array(in.data), FALSE)

CreatePairZip == \E b \in Builders : createZip(b)

NextTwo == AddPairFile \/ CreatePairZip \/ Tick

SpecTwo == Init /\ [][NextTwo]_vars

(***************************************************************************)
(* SpecCrc: addFile over every byte sequence of up to MaxLen bytes drawn   *)
(* from CrcBytes, and the payloads of Spec.                                *)
(***************************************************************************)
CrcBytes == {0, 1, 49, 128, 137, 255}

ByteSeqs(n) == UNION { [1 .. k -> CrcBytes] : k \in 0 .. n }

AddBytes ==
  \E data \in ByteSeqs(MaxLen) \cup Payloads :
    /\ entries[1] = <<>>
    /\ addFile(1, <<97>>, Uint8Array(data), FALSE)

SpecCrc == Init /\ [][AddBytes]_vars

(***************************************************************************)
(* SpecLong: as Spec, with a filename of 21846 code units U+20AC, which    *)
(* encodes to 65538 bytes, more than a 16-bit length field holds.          *)
(***************************************************************************)
LongName == Tuple([i \in 1 .. (U16 \div 3) + 1 |-> 8364])

LargeFilenames == { <<97>>, LongName }

AddLongFile ==
  \E filename \in LargeFilenames, data \in Payloads :
    /\ Len(entries[1]) < MaxEntries
    /\ addFile(1, filename, Uint8Array(data), FALSE)

NextLong == AddLongFile \/ CreateZip

SpecLong == Init /\ [][NextLong]_vars

(***************************************************************************)
(* SpecEnd: createEndOfCentralDirectory on its own, with the arguments     *)
(* createZip passes for n entries whose names encode to nameLength bytes   *)
(* and whose payloads have dataLength bytes each; n ranges over a few      *)
(* small numbers and the numbers around 2^16.                              *)
(***************************************************************************)
EntryCounts == {0, 1, 2, 3, U8 - 1, U8, U16 - 2, U16 - 1, U16, U16 + 1}

CallEnd ==
  \E n \in EntryCounts, nameLength \in 1 .. MaxName, dataLength \in 0 .. MaxData :
    LET size == n * (46 + nameLength)
        offset == n * (30 + nameLength + dataLength)
    IN  /\ endCall' = [totalEntries |-> n, centralDirectorySize |-> size,
                       centralDirectoryOffset |-> offset,
                       record |-> createEndOfCentralDirectory(n, size, offset)]
        /\ UNCHANGED <<entries, blob, zipped, thrown, now, promise, serverVars>>

SpecEnd == Init /\ [][CallEnd]_vars

(***************************************************************************)
(* SpecAsync: one builder whose caller adds files between a call of        *)
(* createZip and the await of its promise.                                 *)
(***************************************************************************)
AsyncInputs == { [filename |-> <<97>>, data |-> <<>>],
                 [filename |-> <<233>>, data |-> <<137, 80>>],
                 [filename |-> <<97>>, data |-> <<49>>] }

AddAsyncFile ==
  \E in \in AsyncInputs :
    /\ Len(entries[1]) < MaxEntries
    /\ addFile(1, in.filename, Uint8Array(in.data), FALSE)

Invoke == invoke(1)

Settle == settle(1)

NextAsync == AddAsyncFile \/ Invoke \/ Settle

SpecAsync == Init /\ [][NextAsync]_vars

(***************************************************************************)
(* SpecAdd: addFile with base64 text and addImageFromDataURL, over texts   *)
(* atob takes and texts it does not.                                       *)
(***************************************************************************)
Base64Texts == { <<65, 81, 73, 68>>,          \* "AQID"
                 <<65, 81, 73, 61>>,          \* "AQI="
                 <<65, 81, 61, 61>>,          \* "AQ=="
                 <<32, 65, 81, 73, 68, 10>>,  \* " AQID\n"
                 <<47, 119, 61, 61>>,         \* "/w=="
                 <<>>,                        \* ""
                 <<65>>,                      \* "A"
                 <<65, 81, 61>>,              \* "AQ="
                 <<65, 42, 73, 68>>,          \* "A*ID"
                 <<65, 61, 73, 68>>,          \* "A=ID"
                 <<65, 81, 73, 68, 233>> }    \* "AQID" U+00E9

(* "data:;base64" *)
DataPrefix == <<100, 97, 116, 97, 58, 59, 98, 97, 115, 101, 54, 52>>

DataURLs == { DataPrefix \o <<44>> \o t : t \in Base64Texts }
              \cup { DataPrefix,
                     <<>>,
                     DataPrefix \o <<44, 65, 81, 61, 61, 44, 65, 81, 73, 68>> }

AddNames == { <<97>>, <<98>> }

AddBase64 ==
  \E filename \in AddNames, text \in Base64Texts :
    /\ Len(entries[1]) < MaxEntries
    /\ addFile(1, filename, String(text), TRUE)

AddImage ==
  \E filename \in AddNames, dataURL \in DataURLs :
    /\ Len(entries[1]) < MaxEntries
    /\ addImageFromDataURL(1, filename, dataURL)

NextAdd == AddBase64 \/ AddImage

SpecAdd == Init /\ [][NextAdd]_vars

(***************************************************************************)
(* The server: POST /api/upload, cleanupTempFiles and GET                  *)
(* /api/download/[sessionId], over the directories temp/ and uploads/.     *)
(*                                                                         *)
(* temp is the set of directories of temp/, each [name, files] with files  *)
(* the sequence of its files [name, data]; tempExists says that temp/      *)
(* itself exists; uploads is the set of files [name, data] of uploads/,    *)
(* name without its ".pdf".  requests[r] is a POST: where it stands (pc),  *)
(* the file of its form, the sessionId it made, when it arrived and the    *)
(* status it answered.  sweeps[w] is a run of cleanupTempFiles: where it   *)
(* stands, the now it read, the sessions it still has to visit, the one it *)
(* visits and the files it still has to unlink.  download is the GET.      *)
(* now is Date.now(), in milliseconds.                                     *)
(***************************************************************************)
oneHour == 60 * 60 * 1000

(* export const maxDuration = 60: a request is ended after 60 seconds *)
maxDuration == 60

Times == (0 .. MaxTicks) \cup (oneHour .. oneHour + MaxTicks)

(* Date.now().toString(): the decimal digits, as code units *)
RECURSIVE toString(_)
toString(n) ==
  IF n < 10 THEN <<48 + n>> ELSE toString(n \div 10) \o <<48 + (n % 10)>>

(* parseInt(session): the number its leading digits spell, NaN without any *)
NaN == -1

RECURSIVE parseDigits(_, _, _)
parseDigits(str, i, acc) ==
  IF i > Len(str) \/ str[i] < 48 \/ str[i] > 57 THEN acc
  ELSE parseDigits(str, i + 1, 10 * acc + (str[i] - 48))

parseInt(str) ==
  IF str = <<>> \/ str[1] < 48 \/ str[1] > 57 THEN NaN
  ELSE parseDigits(str, 1, 0)

(* Mutant of expired: a session of exactly one hour is removed too. *)
expiredAtOneHour(nowRead, session) ==
  LET sessionTime == parseInt(session)
  IN  sessionTime # NaN /\ nowRead - sessionTime >= oneHour

(* now - sessionTime > oneHour *)
expired(nowRead, session) ==
  LET sessionTime == parseInt(session)
  IN  sessionTime # NaN /\ nowRead - sessionTime > oneHour

(* the file system *)
existsDir(name) == \E d \in temp : d.name = name
filesOf(name) == (CHOOSE d \in temp : d.name = name).files
withDir(dirs, name, files) ==
  {d \in dirs : d.name # name} \cup {[name |-> name, files |-> files]}
withoutDir(dirs, name) == {d \in dirs : d.name # name}
hasFile(files, file) == \E i \in 1 .. Len(files) : files[i].name = file
withoutFile(files, file) == SelectSeq(files, LAMBDA f : f.name # file)
zipPath(sessionId) == existsDir(sessionId) /\ hasFile(filesOf(sessionId), "images.zip")
zipData(sessionId) ==
  LET files == filesOf(sessionId)
  IN  files[CHOOSE i \in 1 .. Len(files) : files[i].name = "images.zip"].data

(* archiver with the buffer appended as original.pdf *)
archive(buffer) == <<[name |-> "original.pdf", data |-> buffer]>>

(* what a form holds in its field "file": "none", "notes.txt", "a.pdf",    *)
(* "b.pdf"                                                                 *)
isPdf(file) == file \in {"a.pdf", "b.pdf"}

inFlight(r) == requests[r].pc \notin {"idle", "done"}
running(w) == sweeps[w].pc # "idle"

(* the loop of cleanupTempFiles goes on to the next session that is        *)
(* expired, in the order readdir gave, and awaits its readdir; without     *)
(* one the run ends                                                        *)
continue(w, nowRead, sessions) ==
  LET old == {session \in sessions : expired(nowRead, session)}
  IN  IF old = {} THEN sweeps' = [sweeps EXCEPT ![w] = idleSweep]
      ELSE \E session \in old :
             sweeps' = [sweeps EXCEPT ![w] =
                          [pc |-> "readdirSession", now |-> nowRead,
                           sessions |-> old \ {session}, session |-> session,
                           files |-> <<>>]]

(* POST arrives: cleanupTempFiles() is started and not awaited; it returns *)
(* at once without temp/, else it awaits readdir(tempDir); the handler     *)
(* awaits request.formData()                                               *)
post(r, w, file) ==
  /\ ~inFlight(r)
  /\ ~running(w)
  /\ sweeps' = [sweeps EXCEPT ![w] =
                  IF tempExists THEN [idleSweep EXCEPT !.pc = "readdir"]
                  ELSE idleSweep]
  /\ requests' = [requests EXCEPT ![r] =
                    [pc |-> "formData", file |-> file, sessionId |-> <<>>,
                     arrived |-> now, status |-> 0]]
  /\ UNCHANGED <<temp, tempExists, uploads, download, now, zipVars>>

(* the request is answered *)
answer(request, status) ==
  [request EXCEPT !.pc = "done", !.status = status, !.arrived = 0]

(* const sessionId = Date.now().toString() *)
newSessionId(r) == toString(now)

(* formData() is there: 400 without a file or with one that is no PDF,     *)
(* else the sessionId is made and the directories are awaited              *)
formData(r) ==
  /\ requests[r].pc = "formData"
  /\ requests' = [requests EXCEPT ![r] =
                    IF isPdf(@.file)
                    THEN [@ EXCEPT !.pc = "mkdir", !.sessionId = newSessionId(r)]
                    ELSE answer(@, 400)]
  /\ UNCHANGED <<sweeps, temp, tempExists, uploads, download, now, zipVars>>

(* mkdir(uploadsDir) and mkdir(sessionDir), recursive, where missing *)
mkdir(r) ==
  /\ requests[r].pc = "mkdir"
  /\ tempExists' = TRUE
  /\ temp' = IF existsDir(requests[r].sessionId) THEN temp
             ELSE withDir(temp, requests[r].sessionId, <<>>)
  /\ requests' = [requests EXCEPT ![r].pc = "writeFile"]
  /\ UNCHANGED <<sweeps, uploads, download, now, zipVars>>

(* file.arrayBuffer() and writeFile(pdfPath, buffer) *)
writeFile(r) ==
  /\ requests[r].pc = "writeFile"
  /\ uploads' = {f \in uploads : f.name # requests[r].sessionId}
                  \cup {[name |-> requests[r].sessionId, data |-> requests[r].file]}
  /\ requests' = [requests EXCEPT ![r].pc = "archive"]
  /\ UNCHANGED <<sweeps, temp, tempExists, download, now, zipVars>>

(* createWriteStream(zipPath), the archive piped into it, and its close:   *)
(* 200 with the sessionId; 500 when the stream fails for want of the       *)
(* directory                                                               *)
finalize(r) ==
  /\ requests[r].pc = "archive"
  /\ LET sessionId == requests[r].sessionId
     IN  IF existsDir(sessionId)
         THEN /\ temp' = withDir(temp, sessionId,
                                 withoutFile(filesOf(sessionId), "images.zip")
                                   \o <<[name |-> "images.zip",
                                         data |-> archive(requests[r].file)]>>)
              /\ requests' = [requests EXCEPT ![r] = answer(@, 200)]
         ELSE /\ temp' = temp
              /\ requests' = [requests EXCEPT ![r] = answer(@, 500)]
  /\ UNCHANGED <<sweeps, tempExists, uploads, download, now, zipVars>>

(* readdir(tempDir) is there: now is read and the loop starts *)
readdir(w) ==
  /\ sweeps[w].pc = "readdir"
  /\ continue(w, now, {d.name : d \in temp})
  /\ UNCHANGED <<requests, temp, tempExists, uploads, download, now, zipVars>>

(* readdir(sessionPath) is there, or has failed *)
readdirSession(w) ==
  /\ sweeps[w].pc = "readdirSession"
  /\ IF existsDir(sweeps[w].session)
     THEN sweeps' = [sweeps EXCEPT ![w].files = filesOf(sweeps[w].session),
                                   ![w].pc = IF filesOf(sweeps[w].session) = <<>>
                                             THEN "rmdir" ELSE "unlink"]
     ELSE continue(w, sweeps[w].now, sweeps[w].sessions)
  /\ UNCHANGED <<requests, temp, tempExists, uploads, download, now, zipVars>>

(* unlink of the next file is done, or has failed *)
unlink(w) ==
  /\ sweeps[w].pc = "unlink"
  /\ LET session == sweeps[w].session
         file == Head(sweeps[w].files).name
     IN  IF existsDir(session) /\ hasFile(filesOf(session), file)
         THEN /\ temp' = withDir(temp, session, withoutFile(filesOf(session), file))
              /\ sweeps' = [sweeps EXCEPT ![w].files = Tail(@),
                                          ![w].pc = IF Tail(sweeps[w].files) = <<>>
                                                    THEN "rmdir" ELSE "unlink"]
         ELSE /\ temp' = temp
              /\ continue(w, sweeps[w].now, sweeps[w].sessions)
  /\ UNCHANGED <<requests, tempExists, uploads, download, now, zipVars>>

(* rmdir(sessionPath) is done, or has failed *)
rmdir(w) ==
  /\ sweeps[w].pc = "rmdir"
  /\ LET session == sweeps[w].session
     IN  temp' = IF existsDir(session) /\ filesOf(session) = <<>>
                 THEN withoutDir(temp, session)
                 ELSE temp
  /\ continue(w, sweeps[w].now, sweeps[w].sessions)
  /\ UNCHANGED <<requests, tempExists, uploads, download, now, zipVars>>

(* GET: 400 without a sessionId, 404 without the file, else readFile and   *)
(* stat are awaited                                                        *)
get(sessionId) ==
  /\ download.pc # "readFile"
  /\ download' = IF sessionId = <<>>
                 THEN [pc |-> "done", sessionId |-> sessionId, status |-> 400,
                       body |-> <<>>]
                 ELSE IF ~zipPath(sessionId)
                 THEN [pc |-> "done", sessionId |-> sessionId, status |-> 404,
                       body |-> <<>>]
                 ELSE [pc |-> "readFile", sessionId |-> sessionId, status |-> 0,
                       body |-> <<>>]
  /\ UNCHANGED <<requests, sweeps, temp, tempExists, uploads, now, zipVars>>

(* readFile and stat are there: 200 with the file, 500 when it is gone *)
readFile ==
  /\ download.pc = "readFile"
  /\ download' = IF zipPath(download.sessionId)
                 THEN [download EXCEPT !.pc = "done", !.status = 200,
                                       !.body = zipData(download.sessionId)]
                 ELSE [download EXCEPT !.pc = "done", !.status = 500]
  /\ UNCHANGED <<requests, sweeps, temp, tempExists, uploads, now, zipVars>>

(* time passes, by a millisecond or by an hour; a request in flight is     *)
(* ended after maxDuration seconds                                         *)
elapse(ms) ==
  /\ now + ms \in Times
  /\ \A r \in Requests :
       inFlight(r) => now + ms - requests[r].arrived <= maxDuration * 1000
  /\ now' = now + ms
  /\ UNCHANGED <<serverVars, zipVars>>

(***************************************************************************)
(* SpecServer: uploads and the sweeps they start, interleaved at their     *)
(* awaits, while milliseconds and hours pass.                              *)
(***************************************************************************)
SweptForms == {"none", "a.pdf"}

Post == \E r \in Requests, w \in Sweeps, file \in SweptForms : post(r, w, file)
FormData == \E r \in Requests : formData(r)
Mkdir == \E r \in Requests : mkdir(r)
WriteFile == \E r \in Requests : writeFile(r)
Finalize == \E r \in Requests : finalize(r)
Readdir == \E w \in Sweeps : readdir(w)
ReaddirSession == \E w \in Sweeps : readdirSession(w)
Unlink == \E w \in Sweeps : unlink(w)
Rmdir == \E w \in Sweeps : rmdir(w)
Elapse == \E ms \in {1, oneHour} : elapse(ms)

NextServer ==
  \/ Post \/ FormData \/ Mkdir \/ WriteFile \/ Finalize
  \/ Readdir \/ ReaddirSession \/ Unlink \/ Rmdir
  \/ Elapse

SpecServer == Init /\ [][NextServer]_vars

(***************************************************************************)
(* SpecDownload: uploads of any form and downloads within one hour, in     *)
(* which no session expires and every sweep ends after its readdir.        *)
(***************************************************************************)
DownloadForms == {"notes.txt", "a.pdf", "b.pdf"}

PostForm == \E r \in Requests, file \in DownloadForms : post(r, 1, file)
Get == \E t \in 0 .. MaxTicks : get(toString(t))
ReadFile == readFile
ElapseMs == elapse(1)

NextDownload ==
  \/ PostForm \/ FormData \/ Mkdir \/ WriteFile \/ Finalize
  \/ Readdir
  \/ Get \/ ReadFile
  \/ ElapseMs

SpecDownload == Init /\ [][NextDownload]_vars

(***************************************************************************)
(* SpecSweeping: one client whose uploads follow one another without end,  *)
(* each starting a sweep.  Fairness: a continuation whose await is done is *)
(* run by the event loop, time passes, and POSTs keep arriving.            *)
(***************************************************************************)
PostAgain == \E file \in SweptForms : post(1, 1, file)
Handle == formData(1) \/ mkdir(1) \/ writeFile(1) \/ finalize(1)
Sweep == readdir(1) \/ readdirSession(1) \/ unlink(1) \/ rmdir(1)

NextSweeping == PostAgain \/ Handle \/ Sweep \/ Elapse

SpecSweeping ==
  /\ Init
  /\ [][NextSweeping]_vars
  /\ WF_vars(Handle)
  /\ WF_vars(Sweep)
  /\ WF_vars(Elapse)
  /\ SF_vars(PostAgain)

(***************************************************************************)
(* Reading a finalized buffer.  Positions are byte offsets from the start  *)
(* of the buffer (the byte at offset p is buf[p + 1]).                     *)
(***************************************************************************)
getUint16(buf, p) == buf[p + 1] + U8 * buf[p + 2]

getWord(buf, p) == Word(getUint16(buf, p + 2), getUint16(buf, p))

(* a 32-bit field below 2^31 *)
getUint32(buf, p) == getUint16(buf, p) + U16 * getUint16(buf, p + 2)

bytesAt(buf, p, n) == SubSeq(buf, p + 1, p + n)

LocalSignature == <<80, 75, 3, 4>>
CentralSignature == <<80, 75, 1, 2>>
EndSignature == <<80, 75, 5, 6>>

Finalized == {b \in Builders : blob[b] # NoBlob}

(* the bytes of the Blob of builder b *)
Buffer(b) == zipArray(blob[b])

(* The layout the format prescribes for the entry sequence es. *)
NameLength(e) == Len(TextEncode(e.filename))

RECURSIVE LocalAt(_, _)
LocalAt(es, i) ==
  IF i = 1 THEN 0
  ELSE LocalAt(es, i - 1) + 30 + NameLength(es[i - 1]) + Len(es[i - 1].data)

RECURSIVE CentralAt(_, _)
CentralAt(es, i) ==
  IF i = 1 THEN LocalAt(es, Len(es) + 1)
  ELSE CentralAt(es, i - 1) + 46 + NameLength(es[i - 1])

EndAt(es) == CentralAt(es, Len(es) + 1)

(***************************************************************************)
(* The bit-by-bit CRC-32: the register is a sequence of 32 bits, the      *)
(* least significant first (bit k at index k + 1); the generator           *)
(* polynomial is x^32 + x^26 + x^23 + x^22 + x^16 + x^12 + x^11 + x^10 +   *)
(* x^8 + x^7 + x^5 + x^4 + x^2 + x + 1, reflected.                         *)
(***************************************************************************)
Generator == {0, 1, 2, 4, 5, 7, 8, 10, 11, 12, 16, 22, 23, 26}

RefShift(reg) ==
  Tuple([i \in 1 .. 32 |->
           LET shifted == IF i = 32 THEN 0 ELSE reg[i + 1]
           IN  IF reg[1] = 1 /\ (32 - i) \in Generator THEN 1 - shifted ELSE shifted])

RECURSIVE RefShifts(_, _)
RefShifts(reg, n) ==
  IF n = 0 THEN reg
  ELSE LET next == RefShift(reg)
       IN  IF Len(next) = 32 THEN RefShifts(next, n - 1) ELSE <<>>

RECURSIVE Pow2(_)
Pow2(n) == IF n = 0 THEN 1 ELSE 2 * Pow2(n - 1)

RefByte(reg, byte) ==
  RefShifts(Tuple([i \in 1 .. 32 |->
                     IF i <= 8 THEN (reg[i] + ((byte \div Pow2(i - 1)) % 2)) % 2
                     ELSE reg[i]]),
            8)

RECURSIVE RefLoop(_, _, _)
RefLoop(data, i, reg) ==
  IF i > Len(data) THEN reg
  ELSE LET next == RefByte(reg, data[i])
       IN  IF Len(next) = 32 THEN RefLoop(data, i + 1, next) ELSE <<>>

RECURSIVE BitsValue(_, _, _)
BitsValue(reg, lo, n) ==
  IF n = 0 THEN 0 ELSE reg[lo] + 2 * BitsValue(reg, lo + 1, n - 1)

ReferenceCRC32(data) ==
  LET reg == RefLoop(data, 1, Tuple([i \in 1 .. 32 |-> 1]))
      out == Tuple([i \in 1 .. 32 |-> 1 - reg[i]])
  IN  Word(BitsValue(out, 17, 16), BitsValue(out, 1, 16))

(***************************************************************************)
(* C1: in every finalized buffer, the local-header offset stored in entry  *)
(* i's central directory record is the position at which entry i's local   *)
(* file header begins: the sum over j < i of 30 + name length of j +       *)
(* payload length of j, where the local signature stands.                  *)
(***************************************************************************)
C1_OffsetIntegrity ==
  \A b \in Finalized :
    LET es == zipped[b]
        buf == Buffer(b)
    IN  \A i \in 1 .. Len(es) :
          LET stored == getUint32(buf, CentralAt(es, i) + 42)
          IN  /\ bytesAt(buf, CentralAt(es, i), 4) = CentralSignature
              /\ stored = LocalAt(es, i)
              /\ bytesAt(buf, stored, 4) = LocalSignature

(* a finalized archive whose second entry lies behind a first one with data *)
C1_Witness ==
  \E b \in Finalized :
    /\ Len(zipped[b]) = 2
    /\ Len(zipped[b][1].data) > 0
    /\ getUint32(Buffer(b), CentralAt(zipped[b], 2) + 42) > 30

(***************************************************************************)
(* C2: the end record of a finalized buffer holds, as the offset of the    *)
(* start of the central directory, the total length of the local headers   *)
(* and payloads, where the first central record begins, and as the size    *)
(* of the central directory the sum of 46 + name length over the entries.  *)
(***************************************************************************)
RECURSIVE CentralLengths(_, _)
CentralLengths(es, i) ==
  IF i = 0 THEN 0 ELSE CentralLengths(es, i - 1) + 46 + NameLength(es[i])

C2_EndRecordLocatesDirectory ==
  \A b \in Finalized :
    LET es == zipped[b]
        buf == Buffer(b)
        end == Len(buf) - 22
    IN  /\ end >= 0
        /\ bytesAt(buf, end, 4) = EndSignature
        /\ getUint32(buf, end + 16) = LocalAt(es, Len(es) + 1)
        /\ getUint32(buf, end + 12) = CentralLengths(es, Len(es))
        /\ getUint32(buf, end + 16) + getUint32(buf, end + 12) = end
        /\ Len(es) > 0 =>
             bytesAt(buf, getUint32(buf, end + 16), 4) = CentralSignature

(* a finalized archive of two entries with non-empty names *)
C2_Witness ==
  \E b \in Finalized :
    /\ Len(zipped[b]) = 2
    /\ getUint32(Buffer(b), Len(Buffer(b)) - 22 + 12) > 2 * 46
    /\ getUint32(Buffer(b), Len(Buffer(b)) - 22 + 16) > 2 * 30

(***************************************************************************)
(* C3: both entry counts of the end record equal the number of entries:    *)
(* in a finalized buffer the number the builder held, and in the record    *)
(* createEndOfCentralDirectory returns the totalEntries it was given.      *)
(***************************************************************************)
C3_EntryCounts ==
  /\ \A b \in Finalized :
       LET end == Len(Buffer(b)) - 22
       IN  /\ getUint16(Buffer(b), end + 8) = Len(zipped[b])
           /\ getUint16(Buffer(b), end + 10) = Len(zipped[b])
  /\ endCall.record # <<>> =>
       /\ getUint16(endCall.record, 8) = endCall.totalEntries
       /\ getUint16(endCall.record, 10) = endCall.totalEntries

(***************************************************************************)
(* C4: for every entry of a finalized buffer, the CRC-32 of its local      *)
(* header, the CRC-32 of its central record and the bit-by-bit checksum of *)
(* its payload bytes as they stand in the buffer are equal, and the        *)
(* compressed and uncompressed sizes of both records are the payload       *)
(* length.                                                                 *)
(***************************************************************************)
C4_ChecksumsAndSizes ==
  \A b \in Finalized :
    LET es == zipped[b]
        buf == Buffer(b)
    IN  \A i \in 1 .. Len(es) :
          LET local == LocalAt(es, i)
              central == CentralAt(es, i)
              size == Len(es[i].data)
              payload == bytesAt(buf, local + 30 + NameLength(es[i]), size)
          IN  /\ getWord(buf, local + 14) = getWord(buf, central + 16)
              /\ getWord(buf, local + 14) = ReferenceCRC32(payload)
              /\ getUint32(buf, local + 18) = size
              /\ getUint32(buf, local + 22) = size
              /\ getUint32(buf, central + 20) = size
              /\ getUint32(buf, central + 24) = size

(* a finalized archive holding an entry with data *)
C4_Witness ==
  \E b \in Finalized :
    \E i \in 1 .. Len(zipped[b]) :
      /\ Len(zipped[b][i].data) = 9
      /\ getUint32(Buffer(b), LocalAt(zipped[b], i) + 18) = 9
      /\ getWord(Buffer(b), LocalAt(zipped[b], i) + 14) = Word(52212, 14630)

(***************************************************************************)
(* A ZIP reader: it finds the end record from the back of the buffer,      *)
(* walks the central directory it names and follows each record's local    *)
(* header offset; names are decoded as UTF-8 (TextDecodeFrom).             *)
(***************************************************************************)
RECURSIVE TextDecodeFrom(_, _)
TextDecodeFrom(bytes, i) ==
  IF i > Len(bytes) THEN <<>>
  ELSE
    LET b0 == bytes[i]
        cont(k) == i + k <= Len(bytes) /\ bytes[i + k] >= 128 /\ bytes[i + k] < 192
        low(k) == bytes[i + k] - 128
        cp3 == (b0 - 224) * 4096 + low(1) * 64 + low(2)
        cp4 == (b0 - 240) * 262144 + low(1) * 4096 + low(2) * 64 + low(3)
    IN  IF b0 < 128 THEN <<b0>> \o TextDecodeFrom(bytes, i + 1)
        ELSE IF b0 >= 194 /\ b0 < 224 /\ cont(1)
        THEN <<(b0 - 192) * 64 + low(1)>> \o TextDecodeFrom(bytes, i + 2)
        ELSE IF b0 >= 224 /\ b0 < 240 /\ cont(1) /\ cont(2)
                /\ cp3 >= 2048 /\ ~IsHigh(cp3) /\ ~IsLow(cp3)
        THEN <<cp3>> \o TextDecodeFrom(bytes, i + 3)
        ELSE IF b0 >= 240 /\ b0 < 245 /\ cont(1) /\ cont(2) /\ cont(3)
                /\ cp4 >= 65536 /\ cp4 <= 1114111
        THEN << 55296 + ((cp4 - 65536) \div 1024), 56320 + ((cp4 - 65536) % 1024) >>
               \o TextDecodeFrom(bytes, i + 4)
        ELSE <<65533>> \o TextDecodeFrom(bytes, i + 1)

TextDecode(bytes) == TextDecodeFrom(bytes, 1)

(* a 32-bit field as a number, when it is below 2^31 *)
Fits(w) == w.hi < U16 \div 2
IntOf(w) == w.hi * U16 + w.lo

(* the position of the end record, -1 when there is none *)
FindEnd(buf) ==
  LET first == IF Len(buf) - 22 - (U16 - 1) > 0 THEN Len(buf) - 22 - (U16 - 1) ELSE 0
      found == {p \in first .. Len(buf) - 22 :
                  /\ bytesAt(buf, p, 4) = EndSignature
                  /\ p + 22 + getUint16(buf, p + 20) = Len(buf)}
  IN  IF found = {} THEN -1 ELSE CHOOSE p \in found : \A q \in found : q <= p

(* n central records from pos on *)
RECURSIVE ReadCentral(_, _, _)
ReadCentral(buf, pos, n) ==
  IF n = 0 THEN [ok |-> TRUE, recs |-> <<>>, next |-> pos]
  ELSE IF pos + 46 > Len(buf) THEN [ok |-> FALSE, recs |-> <<>>, next |-> pos]
  ELSE IF \/ bytesAt(buf, pos, 4) # CentralSignature
          \/ pos + 46 + getUint16(buf, pos + 28) > Len(buf)
  THEN [ok |-> FALSE, recs |-> <<>>, next |-> pos]
  ELSE LET nameLen == getUint16(buf, pos + 28)
           rec == [name |-> bytesAt(buf, pos + 46, nameLen),
                   crc |-> getWord(buf, pos + 16),
                   size |-> getWord(buf, pos + 20),
                   offset |-> getWord(buf, pos + 42)]
           rest == ReadCentral(buf, pos + 46 + nameLen + getUint16(buf, pos + 30)
                                      + getUint16(buf, pos + 32), n - 1)
       IN  [ok |-> rest.ok, recs |-> <<rec>> \o rest.recs, next |-> rest.next]

(* n local headers with their data, one after the other, from pos on *)
RECURSIVE WalkLocal(_, _, _)
WalkLocal(buf, pos, n) ==
  IF n = 0 THEN [ok |-> TRUE, recs |-> <<>>, next |-> pos]
  ELSE IF pos + 30 > Len(buf) THEN [ok |-> FALSE, recs |-> <<>>, next |-> pos]
  ELSE IF \/ bytesAt(buf, pos, 4) # LocalSignature
          \/ ~Fits(getWord(buf, pos + 18))
  THEN [ok |-> FALSE, recs |-> <<>>, next |-> pos]
  ELSE LET nameLen == getUint16(buf, pos + 26)
           size == getUint32(buf, pos + 18)
           start == pos + 30 + nameLen + getUint16(buf, pos + 28)
       IN  IF start + size > Len(buf) THEN [ok |-> FALSE, recs |-> <<>>, next |-> pos]
           ELSE LET rec == [at |-> pos,
                            name |-> bytesAt(buf, pos + 30, nameLen),
                            data |-> bytesAt(buf, start, size)]
                    rest == WalkLocal(buf, start + size, n - 1)
                IN  [ok |-> rest.ok, recs |-> <<rec>> \o rest.recs, next |-> rest.next]

(* where the data of central record rec starts, -1 when its local header is bad *)
DataStart(buf, rec) ==
  IF ~Fits(rec.offset) \/ ~Fits(rec.size) THEN -1
  ELSE LET at == IntOf(rec.offset)
       IN  IF at + 30 > Len(buf) THEN -1
           ELSE IF bytesAt(buf, at, 4) # LocalSignature THEN -1
           ELSE LET start == at + 30 + getUint16(buf, at + 26) + getUint16(buf, at + 28)
                IN  IF start + IntOf(rec.size) > Len(buf) THEN -1 ELSE start

ReadZip(buf) ==
  LET end == FindEnd(buf)
      failed == [ok |-> FALSE, files |-> <<>>]
  IN  IF end < 0 THEN failed
      ELSE IF ~Fits(getWord(buf, end + 16)) THEN failed
      ELSE
        LET cd == ReadCentral(buf, getUint32(buf, end + 16), getUint16(buf, end + 10))
            data(rec) == bytesAt(buf, DataStart(buf, rec), IntOf(rec.size))
        IN  IF ~cd.ok THEN failed
            ELSE IF \E i \in 1 .. Len(cd.recs) :
                      \/ DataStart(buf, cd.recs[i]) < 0
                      \/ ReferenceCRC32(data(cd.recs[i])) # cd.recs[i].crc
            THEN failed
            ELSE [ok |-> TRUE,
                  files |-> Tuple([i \in 1 .. Len(cd.recs) |->
                                     [filename |-> TextDecode(cd.recs[i].name),
                                      data |-> data(cd.recs[i])]])]

(* what addFile was called with, call by call *)
Calls(es) == Tuple([i \in 1 .. Len(es) |-> [filename |-> es[i].filename, data |-> es[i].data]])

(***************************************************************************)
(* C5: in a finalized buffer the local headers, read one after the other   *)
(* from the start, and the central records, read one after the other from  *)
(* the start of the central directory, both carry the names (and the       *)
(* local ones the payloads) of the addFile calls in the order of the       *)
(* calls, one record per call also when names repeat; central record i     *)
(* points at local header i, and the two walks end where the central       *)
(* directory and the end record begin.                                     *)
(***************************************************************************)
C5_InsertionOrder ==
  \A b \in Finalized :
    LET es == zipped[b]
        buf == Buffer(b)
        end == Len(buf) - 22
        local == WalkLocal(buf, 0, Len(es))
        central == ReadCentral(buf, getUint32(buf, end + 16), Len(es))
    IN  /\ local.ok
        /\ central.ok
        /\ local.next = getUint32(buf, end + 16)
        /\ central.next = end
        /\ \A i \in 1 .. Len(es) :
             /\ local.recs[i].name = TextEncode(es[i].filename)
             /\ local.recs[i].data = es[i].data
             /\ central.recs[i].name = TextEncode(es[i].filename)
             /\ Fits(central.recs[i].offset)
             /\ IntOf(central.recs[i].offset) = local.recs[i].at

(* a finalized archive of two entries of one name and different payloads *)
C5_Witness ==
  \E b \in Finalized :
    /\ Len(zipped[b]) = 2
    /\ zipped[b][1].filename = zipped[b][2].filename
    /\ zipped[b][1].data # zipped[b][2].data
    /\ WalkLocal(Buffer(b), 0, 2).recs[2].data = zipped[b][2].data

(***************************************************************************)
(* C6: createZip on a builder without entries returns exactly the 22 bytes *)
(* of an end record: its signature and zero in every field.                *)
(***************************************************************************)
C6_EmptyArchive ==
  \A b \in Finalized :
    zipped[b] = <<>> =>
      Buffer(b) = EndSignature \o [i \in 1 .. 18 |-> 0]

(* createZip has run on a builder without entries *)
C6_Witness ==
  \E b \in Finalized : zipped[b] = <<>> /\ Len(Buffer(b)) = 22

(***************************************************************************)
(* C7: two builders that received the same addFile calls in the same order *)
(* return the same bytes from createZip, whenever each was finalized.      *)
(***************************************************************************)
C7_Deterministic ==
  \A b1 \in Finalized, b2 \in Finalized :
    Calls(zipped[b1]) = Calls(zipped[b2]) => Buffer(b1) = Buffer(b2)

(* both builders finalized after the same two calls, the clock advanced *)
C7_Witness ==
  /\ Finalized = Builders
  /\ Len(zipped[1]) = 2
  /\ Calls(zipped[1]) = Calls(zipped[2])
  /\ Buffer(1) = Buffer(2)
  /\ now > 0

(***************************************************************************)
(* C8: the reader recovers from a finalized buffer the names and payloads  *)
(* of the addFile calls, in the order of the calls.                        *)
(***************************************************************************)
C8_RoundTrip ==
  \A b \in Finalized :
    ReadZip(Buffer(b)) = [ok |-> TRUE, files |-> Calls(zipped[b])]

(***************************************************************************)
(* C9: the checksum addFile stores is the bit-by-bit CRC-32 of the data,   *)
(* an unsigned 32-bit value; it is 0x00000000 for no data and 0xCBF43926   *)
(* for the ASCII bytes "123456789".                                        *)
(***************************************************************************)
Digits == <<49, 50, 51, 52, 53, 54, 55, 56, 57>>

C9_StandardCRC32 ==
  \A b \in Builders :
    \A i \in 1 .. Len(entries[b]) :
      LET e == entries[b][i]
      IN  /\ e.crc32 = ReferenceCRC32(e.data)
          /\ e.crc32.hi \in 0 .. U16 - 1
          /\ e.crc32.lo \in 0 .. U16 - 1
          /\ e.data = <<>> => e.crc32 = Word(0, 0)
          /\ e.data = Digits => e.crc32 = Word(52212, 14630)

(* the check string has been added *)
C9_Witness ==
  \E b \in Builders :
    \E i \in 1 .. Len(entries[b]) :
      entries[b][i].data = Digits /\ entries[b][i].crc32 = Word(52212, 14630)

(***************************************************************************)
(* C10: no entry whose name encodes to more than 65535 bytes is ever in    *)
(* the builder (addFile rejects it), and the filename length of every      *)
(* local header of a finalized buffer is the encoded length of the name    *)
(* that follows it.                                                        *)
(***************************************************************************)
C10_LongNameRejected ==
  /\ \A b \in Builders :
       \A i \in 1 .. Len(entries[b]) : NameLength(entries[b][i]) < U16
  /\ \A b \in Finalized :
       \A i \in 1 .. Len(zipped[b]) :
         getUint16(Buffer(b), LocalAt(zipped[b], i) + 26) = NameLength(zipped[b][i])

(***************************************************************************)
(* C11: a call of addFile with base64 text, or of addImageFromDataURL,     *)
(* whose text is malformed (a character that is neither of the base64      *)
(* alphabet nor white space nor padding in its place, or one character     *)
(* left over after the groups of four) or whose data URL has no comma      *)
(* raises an error and leaves the entry sequence as it was; and whenever a *)
(* call raises, the entry sequence is as it was.                           *)
(***************************************************************************)
Alphabet ==
  (65 .. 90) \cup (97 .. 122) \cup (48 .. 57) \cup {43, 47}

WhiteSpace == {9, 10, 12, 13, 32}

Malformed(text) ==
  LET t == SelectSeq(text, LAMBDA c : c \notin WhiteSpace)
      n == Len(t)
      pad == IF n % 4 = 0 /\ n > 0 /\ t[n] = 61
             THEN IF t[n - 1] = 61 THEN 2 ELSE 1
             ELSE 0
  IN  \/ (n - pad) % 4 = 1
      \/ \E i \in 1 .. n - pad : t[i] \notin Alphabet

NoComma(dataURL) == \A i \in 1 .. Len(dataURL) : dataURL[i] # 44

AfterComma(dataURL) ==
  LET first == CHOOSE i \in 1 .. Len(dataURL) :
                 dataURL[i] = 44 /\ \A j \in 1 .. i - 1 : dataURL[j] # 44
      rest == SubSeq(dataURL, first + 1, Len(dataURL))
      stop == IF NoComma(rest) THEN Len(rest) + 1
              ELSE CHOOSE i \in 1 .. Len(rest) :
                     rest[i] = 44 /\ \A j \in 1 .. i - 1 : rest[j] # 44
  IN  SubSeq(rest, 1, stop - 1)

Failed == thrown' # "none" /\ entries' = entries

C11_FailedAddLeavesBuilder ==
  [][ /\ thrown' # "none" => entries' = entries
      /\ \A filename \in AddNames :
           /\ \A text \in Base64Texts :
                Malformed(text) /\ addFile(1, filename, String(text), TRUE) => Failed
           /\ \A dataURL \in DataURLs :
                /\ addImageFromDataURL(1, filename, dataURL)
                /\ NoComma(dataURL) \/ Malformed(AfterComma(dataURL))
                => Failed ]_vars

(* a call has raised on a builder that holds an entry *)
C11_Witness ==
  /\ thrown = "InvalidCharacterError"
  /\ Len(entries[1]) = 1
  /\ entries[1][1].data = <<1, 2, 3>>

(***************************************************************************)
(* C15: a call of createZip leaves the entry sequence as it was; what it   *)
(* returns reads back as the whole entry sequence, the entries added after *)
(* an earlier createZip included; and when the entries are those the last  *)
(* awaited createZip read, it returns the same bytes again.                *)
(***************************************************************************)
C15_CreateZipKeepsBuilder ==
  [][ \A b \in {1} :
        promise[b] = NoPromise /\ promise'[b] # NoPromise =>
          /\ entries' = entries
          /\ promise'[b].read = entries[b]
          /\ ReadZip(zipArray(promise'[b].parts))
               = [ok |-> TRUE, files |-> Calls(entries[b])]
          /\ blob[b] # NoBlob /\ zipped[b] = entries[b] =>
               zipArray(promise'[b].parts) = Buffer(b) ]_vars

(* createZip, awaited, then addFile, then createZip again *)
C15_Witness ==
  /\ blob[1] # NoBlob
  /\ Len(zipped[1]) = 1
  /\ promise[1] # NoPromise
  /\ Len(promise[1].read) = 2
  /\ entries[1] = promise[1].read
  /\ SubSeq(entries[1], 1, 1) = zipped[1]

(***************************************************************************)
(* C16: an addFile between a call of createZip and the await of its        *)
(* promise leaves the promise as it is, and the Blob the await takes reads *)
(* back as exactly the entries the builder held at the call.               *)
(***************************************************************************)
C16_NoSuspensionPoints ==
  [][ \A b \in {1} :
        /\ promise[b] # NoPromise /\ entries'[b] # entries[b] =>
             promise'[b] = promise[b]
        /\ promise[b] # NoPromise /\ promise'[b] = NoPromise =>
             /\ zipped'[b] = promise[b].read
             /\ ReadZip(zipArray(blob'[b]))
                  = [ok |-> TRUE, files |-> Calls(promise[b].read)] ]_vars

(* an entry was added while the promise of createZip was not yet awaited *)
C16_Witness ==
  /\ promise[1] # NoPromise
  /\ Len(promise[1].read) = 1
  /\ Len(entries[1]) = 2
  /\ SubSeq(entries[1], 1, 1) = promise[1].read

(***************************************************************************)
(* C12: a run of cleanupTempFiles takes a file or a directory away only    *)
(* from a session directory that is more than one hour older than the      *)
(* current time, never from the one of an upload in flight; and when a run *)
(* ends, every session directory that is more than one hour older than the *)
(* time the run read is gone, or a run still in progress has yet to visit  *)
(* it or is visiting it.                                                   *)
(***************************************************************************)
Age(session) == now - parseInt(session)

Touched(d) ==
  \/ \A e \in temp' : e.name # d.name
  \/ \E e \in temp' : e.name = d.name /\ Len(e.files) < Len(d.files)

TimeRead(w) == IF sweeps[w].pc = "readdir" THEN now ELSE sweeps[w].now

C13_SessionIsolation ==
  /\ \A r1 \in Requests, r2 \in Requests :
       /\ r1 # r2
       /\ requests[r1].sessionId # <<>>
       /\ requests[r2].sessionId # <<>>
       => requests[r1].sessionId # requests[r2].sessionId
  /\ download.status = 200 =>
       \A r \in Requests :
         /\ requests[r].pc = "done"
         /\ requests[r].status = 200
         /\ requests[r].sessionId = download.sessionId
         => download.body = archive(requests[r].file)

(***************************************************************************)
(* C14: every PDF written to uploads/ is eventually deleted, while sweeps  *)
(* keep being started after it is more than one hour old.                  *)
(***************************************************************************)
C14_PdfEventuallyDeleted ==
  \A t \in Times :
    (\E f \in uploads : f.name = toString(t))
      ~> (\A f \in uploads : f.name # toString(t))

====
